---------------------------- MODULE Spec2Model ----------------------------
(***************************************************************************)
(* A model of egui_file's FileDialog (src/src/lib.rs): the dialog state    *)
(* machine, the directory listing, single and multi selection, the edit    *)
(* buffers, and the commands one show() frame applies, over a small        *)
(* POSIX-like filesystem.                                                  *)
(*                                                                         *)
(* Strings are sequences of one-character strings, so that is_empty,       *)
(* starts_with, byte-wise ordering, path formatting and path parsing are   *)
(* computed rather than assumed.  A path is the sequence of its            *)
(* components (std::path::Components); the root component is RootDir.      *)
(* Indices into the listing are 0-based as in the source; the entry with   *)
(* index i is files.list[i + 1].                                           *)
(***************************************************************************)
EXTENDS Integers, Sequences, FiniteSets, TLC

(***************************************************************************)
(* Bounds of the model.                                                    *)
(***************************************************************************)
\* Longest path below the root, in components, that navigation and
\* directory creation may reach.
MaxDepth == 1
\* Number of successful filesystem mutations (create_dir, rename) in a run.
MaxFsOps == 1

(***************************************************************************)
(* Option<T>: None is the empty sequence, Some(x) the one-element one.     *)
(***************************************************************************)
None == <<>>
Some(x) == <<x>>
Last(s) == s[Len(s)]
Front(s) == SubSeq(s, 1, Len(s) - 1)
Min2(a, b) == IF a <= b THEN a ELSE b
Max2(a, b) == IF a >= b THEN a ELSE b

(***************************************************************************)
(* Characters and names.                                                   *)
(***************************************************************************)
\* Byte value of each character that occurs in a name (ASCII).
Code == (" " :> 32) @@ ("." :> 46) @@ ("/" :> 47) @@ ("N" :> 78) @@
        ("a" :> 97) @@ ("d" :> 100) @@ ("e" :> 101) @@ ("f" :> 102) @@
        ("l" :> 108) @@ ("n" :> 110) @@ ("o" :> 111) @@ ("r" :> 114) @@
        ("t" :> 116) @@ ("w" :> 119)

EmptyStr == <<>>
NameD == <<"d">>
NameT == <<"t">>
NameA == <<"a">>
NameDotD == <<".", "d">>
NameDotT == <<".", "t">>
\* The literal "New folder" of Command::CreateDirectory.
NewFolder == <<"N", "e", "w", " ", "f", "o", "l", "d", "e", "r">>

\* Ordering of two strings as <[u8] as Ord>::cmp: -1, 0 or 1.
RECURSIVE str_cmp(_, _)
str_cmp(a, b) ==
  IF a = <<>> /\ b = <<>> THEN 0
  ELSE IF a = <<>> THEN -1
  ELSE IF b = <<>> THEN 1
  ELSE IF Code[Head(a)] < Code[Head(b)] THEN -1
  ELSE IF Code[Head(a)] > Code[Head(b)] THEN 1
  ELSE str_cmp(Tail(a), Tail(b))

starts_with(s, ch) == s # <<>> /\ Head(s) = ch
ends_with(s, ch) == s # <<>> /\ Last(s) = ch

(***************************************************************************)
(* Paths.                                                                  *)
(***************************************************************************)
RootDir == <<"/">>
Root == <<RootDir>>

\* Path::file_name: the last component when it is a normal one.
file_name(p) ==
  IF p = <<>> \/ Last(p) = RootDir THEN None ELSE Some(Last(p))

\* Path::parent.
parent(p) ==
  IF p = <<>> \/ p = Root THEN None ELSE Some(Front(p))

\* Path::join / PathBuf::push with a relative, single-component or empty name.
join(p, name) == IF name = EmptyStr THEN p ELSE Append(p, name)

\* Path::with_file_name: replaces the last normal component, or pushes.
with_file_name(p, name) ==
  IF file_name(p) = None THEN join(p, name) ELSE join(Front(p), name)

\* Path::to_str: components separated by '/', the root written "/".
RECURSIVE to_str(_)
to_str(p) ==
  IF p = <<>> THEN EmptyStr
  ELSE IF Len(p) = 1 THEN p[1]
  ELSE IF Front(p) = Root THEN <<"/">> \o Last(p)
  ELSE to_str(Front(p)) \o <<"/">> \o Last(p)

\* The normal components of a text: split at '/', empty pieces dropped.
RECURSIVE split(_, _, _)
split(s, cur, acc) ==
  IF s = <<>> THEN (IF cur = <<>> THEN acc ELSE Append(acc, cur))
  ELSE IF Head(s) = "/"
       THEN split(Tail(s), <<>>, IF cur = <<>> THEN acc ELSE Append(acc, cur))
       ELSE split(Tail(s), Append(cur, Head(s)), acc)

\* PathBuf::from(text), read through its components.
PathBuf_from(s) ==
  IF starts_with(s, "/") THEN Root \o split(s, <<>>, <<>>)
  ELSE split(s, <<>>, <<>>)

(***************************************************************************)
(* The filesystem: a function from the paths that exist to "dir" or        *)
(* "file".  Every existing path other than the root has a directory as     *)
(* parent.                                                                 *)
(***************************************************************************)
InitialFs ==
  (Root :> "dir") @@
  (<<RootDir, NameD>> :> "dir") @@
  (<<RootDir, NameDotT>> :> "file")

\* A wider root: a hidden and a plain directory, a hidden and a plain file.
WideFs ==
  (Root :> "dir") @@
  (<<RootDir, NameD>> :> "dir") @@
  (<<RootDir, NameDotD>> :> "dir") @@
  (<<RootDir, NameDotT>> :> "file") @@
  (<<RootDir, NameA>> :> "file")

exists(f, p) == p \in DOMAIN f
is_dir(f, p) == p \in DOMAIN f /\ f[p] = "dir"
is_file(f, p) == p \in DOMAIN f /\ f[p] = "file"
IsPrefix(p, q) == Len(p) <= Len(q) /\ SubSeq(q, 1, Len(p)) = p
Children(f, p) == {q \in DOMAIN f : Len(q) = Len(p) + 1 /\ IsPrefix(p, q)}

\* fs::create_dir: the parent must be a directory and the name free.
create_dir_ok(f, p) ==
  /\ p # <<>>
  /\ ~exists(f, p)
  /\ is_dir(f, Front(p))
create_dir(f, p) == (p :> "dir") @@ f

\* fs::rename (rename(2)): the source must exist, the target's parent must
\* be a directory, a directory cannot move below itself, a file replaces a
\* file, a directory replaces an empty directory.
rename_ok(f, from, to) ==
  /\ exists(f, from)
  /\ to # <<>>
  /\ \/ to = from
     \/ /\ ~IsPrefix(from, to)
        /\ to # Root
        /\ is_dir(f, Front(to))
        /\ \/ ~exists(f, to)
           \/ is_file(f, from) /\ is_file(f, to)
           \/ is_dir(f, from) /\ is_dir(f, to) /\ Children(f, to) = {}
rename(f, from, to) ==
  IF to = from THEN f
  ELSE LET moved == {q \in DOMAIN f : IsPrefix(from, q)}
           kept == (DOMAIN f \ moved) \ {to}
           target(q) == to \o SubSeq(q, Len(from) + 1, Len(q))
           dom == kept \cup {target(q) : q \in moved}
       IN [q \in dom |->
             IF q \in kept THEN f[q]
             ELSE f[CHOOSE m \in moved : target(m) = q]]


(***************************************************************************)
(* The state of one FileDialog, the filesystem it works on, and what the   *)
(* user interface remembers between two frames.                            *)
(***************************************************************************)
VARIABLES
  path,                 \* current opened path
  path_edit,            \* editable field with path
  selected_file,        \* Option<FileInfo>, single select mode
  filename_edit,        \* editable field with filename
  files,                \* Result<Vec<FileInfo>, Error>
  state,                \* "Open", "Closed", "Cancelled", "Selected"
  dialog_type,          \* "SelectFolder", "OpenFile", "SaveFile"
  filename_filter,      \* the injected filename predicate
  multi_select_enabled,
  range_start,          \* Option<usize>
  show_hidden,
  fs,                   \* the filesystem
  fs_ops,               \* successful create_dir / rename calls so far
  command,              \* tag of the latest frame's command, or the API call
  printed,              \* the latest frame printed an error
  last_click,           \* row whose click the pointer state remembers
  range_after_plain,    \* the latest two frames: a plain click, a range click
  panicked              \* an index ran out of bounds: the thread unwound

vars == <<path, path_edit, selected_file, filename_edit, files, state,
          dialog_type, filename_filter, multi_select_enabled, range_start,
          show_hidden, fs, fs_ops, command, printed, last_click,
          range_after_plain, panicked>>

config == <<dialog_type, filename_filter, multi_select_enabled>>

States == {"Open", "Closed", "Cancelled", "Selected"}
DialogTypes == {"SelectFolder", "OpenFile", "SaveFile"}
\* "all" is the default |_| true; "ends_t" accepts the names ending in 't'.
Filters == {"all", "ends_t"}

(***************************************************************************)
(* FileInfo.                                                               *)
(***************************************************************************)
FileInfo(p, d, sel) == [path |-> p, dir |-> d, selected |-> sel]

FileInfo_new(f, p) == FileInfo(p, is_dir(f, p), FALSE)

get_file_name(info) ==
  LET n == file_name(info.path) IN IF n = None THEN EmptyStr ELSE n[1]

FilenameFilter(name) ==
  IF filename_filter = "all" THEN TRUE ELSE ends_with(name, "t")

\* The default show_files_filter, |_| true.
ShowFilesFilter(p) == TRUE

(***************************************************************************)
(* The listing.                                                            *)
(***************************************************************************)
Ok(list) == [ok |-> TRUE, list |-> list]
Err == [ok |-> FALSE, list |-> <<>>]

\* Option<&OsStr>::cmp: None sorts first.
option_cmp(a, b) ==
  IF a = None /\ b = None THEN 0
  ELSE IF a = None THEN -1
  ELSE IF b = None THEN 1
  ELSE str_cmp(a[1], b[1])

\* A variant of the comparator that orders by file name alone.
sort_cmp_by_name(a, b) == option_cmp(file_name(a.path), file_name(b.path))

\* The comparator of sort_by: folders before files, then by file name.
sort_cmp(a, b) ==
  IF a.dir = b.dir THEN option_cmp(file_name(a.path), file_name(b.path))
  ELSE IF a.dir THEN -1 ELSE 1

\* The sorted vector of a set of entries, least entry first.
RECURSIVE sort_by(_)
sort_by(S) ==
  IF S = {} THEN <<>>
  ELSE LET m == CHOOSE x \in S : \A y \in S : sort_cmp(x, y) <= 0
       IN <<m>> \o sort_by(S \ {m})

\* A variant of the filter that hides the files but not the directories.
shown_with_hidden_dirs(f, hidden, info) ==
  /\ info.dir \/ (is_file(f, info.path) /\ ShowFilesFilter(info.path))
  /\ ~(~hidden /\ ~info.dir /\ starts_with(get_file_name(info), "."))

\* The entries read_folder keeps.
shown(f, hidden, info) ==
  /\ info.dir \/ (is_file(f, info.path) /\ ShowFilesFilter(info.path))
  /\ ~(~hidden /\ starts_with(get_file_name(info), "."))

read_folder(s) ==
  IF ~is_dir(s.fs, s.path) THEN Err
  ELSE LET infos == {FileInfo_new(s.fs, q) : q \in Children(s.fs, s.path)}
       IN Ok(sort_by({i \in infos : shown(s.fs, s.show_hidden, i)}))

(***************************************************************************)
(* The methods of FileDialog, as functions of the dialog record s.         *)
(***************************************************************************)
select(s, file) ==
  [s EXCEPT !.filename_edit =
              IF file # None THEN get_file_name(file[1]) ELSE @,
            !.selected_file = file]

\* A variant of refresh that keeps the selected entry.
refresh_keeps_selected_file(s) ==
  [s EXCEPT !.files = read_folder(s), !.path_edit = to_str(s.path)]

refresh(s) ==
  LET s1 == [s EXCEPT !.files = read_folder(s), !.path_edit = to_str(s.path)]
  IN [select(s1, None) EXCEPT !.selected_file = None]

set_path(s, p) == refresh([s EXCEPT !.path = p])

\* A variant of open that forgets the refresh.
open_without_refresh(s) == [s EXCEPT !.state = "Open"]

open(s) == refresh([s EXCEPT !.state = "Open"])

confirm(s) == [s EXCEPT !.state = "Selected"]

\* A variant of open_selected that confirms an empty selection in every
\* OpenFile instance.
open_selected_confirms_unselected(s) ==
  IF s.selected_file # None
  THEN LET info == s.selected_file[1]
       IN IF info.dir THEN set_path(s, info.path)
          ELSE IF dialog_type = "OpenFile" THEN confirm(s) ELSE s
  ELSE IF dialog_type = "OpenFile" THEN confirm(s)
  ELSE s

open_selected(s) ==
  IF s.selected_file # None
  THEN LET info == s.selected_file[1]
       IN IF info.dir THEN set_path(s, info.path)
          ELSE IF dialog_type = "OpenFile" THEN confirm(s) ELSE s
  ELSE IF multi_select_enabled /\ dialog_type = "OpenFile" THEN confirm(s)
  ELSE s

\* A variant of select_reset_multi without the loop that clears the flags.
select_reset_multi_without_reset(s, idx) ==
  IF s.files.ok
  THEN [s EXCEPT !.files.list[idx + 1].selected = ~@,
                 !.range_start = Some(idx)]
  ELSE s

select_reset_multi(s, idx) ==
  IF s.files.ok
  THEN LET selected_val == s.files.list[idx + 1].selected
       IN [s EXCEPT !.files.list =
                      [i \in 1..Len(@) |->
                         [@[i] EXCEPT !.selected =
                            IF i = idx + 1 THEN ~selected_val ELSE FALSE]],
                    !.range_start = Some(idx)]
  ELSE s

\* A variant of select_switch_multi that anchors the row it deselects.
select_switch_multi_keeps_anchor(s, idx) ==
  IF s.files.ok
  THEN [s EXCEPT !.files.list[idx + 1].selected = ~@,
                 !.range_start = Some(idx)]
  ELSE [s EXCEPT !.range_start = None]

select_switch_multi(s, idx) ==
  IF s.files.ok
  THEN LET now == ~s.files.list[idx + 1].selected
       IN [s EXCEPT !.files.list[idx + 1].selected = now,
                    !.range_start = IF now THEN Some(idx) ELSE None]
  ELSE [s EXCEPT !.range_start = None]

\* files[i] panics at the first index past the end of the listing; the
\* entries before it are already set.
select_range(s, idx) ==
  IF s.files.ok /\ s.range_start # None
  THEN LET lo == Min2(idx, s.range_start[1])
           hi == Max2(idx, s.range_start[1])
       IN [s EXCEPT !.files.list =
                      [i \in 1..Len(@) |->
                         IF lo <= i - 1 /\ i - 1 <= hi
                         THEN [@[i] EXCEPT !.selected = TRUE] ELSE @[i]],
                    !.panicked = hi >= Len(s.files.list)]
  ELSE s

can_save(s) == s.filename_edit # EmptyStr /\ FilenameFilter(s.filename_edit)

\* A variant of can_open that looks at the typed name in either mode.
can_open_by_name(s) == s.filename_edit # EmptyStr /\ FilenameFilter(s.filename_edit)

can_open(s) ==
  IF multi_select_enabled
  THEN s.files.ok /\ \E i \in 1..Len(s.files.list) :
         s.files.list[i].selected /\ FilenameFilter(get_file_name(s.files.list[i]))
  ELSE s.filename_edit # EmptyStr /\ FilenameFilter(s.filename_edit)

\* A variant of can_rename without the comparison of the names.
can_rename_same_name(s) ==
  /\ s.filename_edit # EmptyStr
  /\ s.selected_file # None

can_rename(s) ==
  /\ s.filename_edit # EmptyStr
  /\ s.selected_file # None
  /\ get_file_name(s.selected_file[1]) # s.filename_edit

get_folder(s) ==
  IF s.selected_file # None /\ s.selected_file[1].dir
  THEN s.selected_file[1].path
  ELSE s.path

\* FileDialog::path and FileDialog::selection, the results the host reads.
path_result(s) ==
  IF s.selected_file = None THEN None ELSE Some(s.selected_file[1].path)

selection(s) ==
  IF s.files.ok
  THEN LET sel == SelectSeq(s.files.list, LAMBDA info : info.selected)
       IN [i \in 1..Len(sel) |-> sel[i].path]
  ELSE <<>>

(***************************************************************************)
(* Commands (enum Command of ui_in_window) and their dispatch.             *)
(***************************************************************************)
Cmd(tag, arg) == [tag |-> tag, arg |-> arg]
NoCommand == Cmd("None", None)

\* The name Command::CreateDirectory gives the new directory.
new_dir_path(s) ==
  join(s.path, IF s.filename_edit = EmptyStr THEN NewFolder ELSE s.filename_edit)

\* A variant of the error arm that re-lists the directory.
report_error_and_refresh(s) == refresh([s EXCEPT !.printed = TRUE])

\* The Err arm of fs::create_dir and fs::rename: the error is printed and
\* nothing else is done.
report_error(s) == [s EXCEPT !.printed = TRUE]

\* The match over the frame's command.
dispatch(s, cmd) ==
  CASE cmd.tag = "None" -> s
    [] cmd.tag = "Select" -> select(s, Some(cmd.arg))
    [] cmd.tag = "MultiSelect" -> select_reset_multi(s, cmd.arg)
    [] cmd.tag = "MultiSelectRange" -> select_range(s, cmd.arg)
    [] cmd.tag = "MultiSelectSwitch" -> select_switch_multi(s, cmd.arg)
    [] cmd.tag = "Folder" ->
         confirm([s EXCEPT !.selected_file =
                             Some(FileInfo(get_folder(s), TRUE, TRUE))])
    [] cmd.tag = "Open" -> open_selected(select(s, Some(cmd.arg)))
    [] cmd.tag = "OpenSelected" -> open_selected(s)
    [] cmd.tag = "BrowseDirectory" ->
         open_selected([s EXCEPT !.selected_file = Some(cmd.arg)])
    [] cmd.tag = "Save" -> confirm([s EXCEPT !.selected_file = Some(cmd.arg)])
    [] cmd.tag = "Cancel" -> [s EXCEPT !.state = "Cancelled"]
    [] cmd.tag = "Refresh" -> refresh(s)
    [] cmd.tag = "UpDirectory" ->
         IF parent(s.path) # None
         THEN refresh([s EXCEPT !.path = Front(@)])
         ELSE s
    [] cmd.tag = "CreateDirectory" ->
         LET p == new_dir_path(s)
         IN IF create_dir_ok(s.fs, p)
            THEN LET s1 == refresh([s EXCEPT !.fs = create_dir(@, p),
                                             !.fs_ops = @ + 1])
                 IN select(s1, Some(FileInfo_new(s1.fs, p)))
            ELSE report_error(s)
    [] cmd.tag = "Rename" ->
         LET from == cmd.arg[1]
             to == cmd.arg[2]
         IN IF rename_ok(s.fs, from, to)
            THEN LET s1 == refresh([s EXCEPT !.fs = rename(@, from, to),
                                             !.fs_ops = @ + 1])
                 IN select(s1, Some(FileInfo_new(s1.fs, to)))
            ELSE report_error(s)

\* ui_in_window: the Show Hidden checkbox refreshes at once, before the rows
\* are laid out; the frame's command is applied last.
ui_in_window(s, toggle, cmd) ==
  dispatch(IF toggle THEN refresh([s EXCEPT !.show_hidden = ~@]) ELSE s, cmd)

\* A variant of show that lays the window out whatever the state is.
show_in_any_state(s, esc, toggle, cmd, closed) ==
  LET s1 == IF esc THEN [s EXCEPT !.state = "Cancelled"] ELSE s
      s2 == ui_in_window(s1, toggle, cmd)
  IN IF s2.panicked THEN s2
     ELSE [s2 EXCEPT !.state = IF closed THEN "Cancelled" ELSE @]

\* A variant of show that leaves a dialog that is not open as it is.
show_keeps_state(s, esc, toggle, cmd, closed) ==
  IF s.state = "Open"
  THEN LET s1 == IF esc THEN [s EXCEPT !.state = "Cancelled"] ELSE s
           s2 == ui_in_window(s1, toggle, cmd)
       IN IF s2.panicked THEN s2
          ELSE [s2 EXCEPT !.state = IF closed THEN "Cancelled" ELSE @]
  ELSE s

\* show: esc is Key::Escape pressed in the frame, closed is the window's
\* close button (is_open = false).
show(s, esc, toggle, cmd, closed) ==
  IF s.state = "Open"
  THEN LET s1 == IF esc THEN [s EXCEPT !.state = "Cancelled"] ELSE s
           s2 == ui_in_window(s1, toggle, cmd)
       IN IF s2.panicked THEN s2
          ELSE [s2 EXCEPT !.state = IF closed THEN "Cancelled" ELSE @]
  ELSE [s EXCEPT !.state = "Closed"]

(***************************************************************************)
(* What the widgets of one frame report, from the dialog record s.         *)
(***************************************************************************)
\* The path field lost focus.
path_commit_command(s) ==
  Cmd("Open", FileInfo_new(s.fs, PathBuf_from(s.path_edit)))

\* The Rename button.
rename_command(s) ==
  LET from == s.selected_file[1].path
  IN Cmd("Rename", <<from, with_file_name(from, s.filename_edit)>>)

\* Enter in the filename field.
filename_commit_command(s) ==
  IF FilenameFilter(s.filename_edit)
  THEN LET p == join(s.path, s.filename_edit)
       IN CASE dialog_type = "SelectFolder" -> Cmd("Folder", None)
            [] dialog_type = "OpenFile" ->
                 IF exists(s.fs, p) THEN Cmd("Open", FileInfo_new(s.fs, p))
                 ELSE NoCommand
            [] dialog_type = "SaveFile" ->
                 IF is_dir(s.fs, p) THEN Cmd("Open", FileInfo(p, TRUE, FALSE))
                 ELSE Cmd("Save", FileInfo(p, FALSE, FALSE))
  ELSE NoCommand

\* The confirm button of the dialog type, when it is enabled.
should_open_directory(s) == s.selected_file # None /\ s.selected_file[1].dir

confirm_enabled(s) ==
  CASE dialog_type = "SelectFolder" -> TRUE
    [] dialog_type = "OpenFile" -> can_open(s)
    [] dialog_type = "SaveFile" -> should_open_directory(s) \/ can_save(s)

\* A variant of the confirm button whose Save names the directory itself.
confirm_command_without_name(s) ==
  CASE dialog_type = "SelectFolder" -> Cmd("Folder", None)
    [] dialog_type = "OpenFile" -> Cmd("OpenSelected", None)
    [] dialog_type = "SaveFile" ->
         IF should_open_directory(s) THEN Cmd("OpenSelected", None)
         ELSE Cmd("Save", FileInfo_new(s.fs, s.path))

confirm_command(s) ==
  CASE dialog_type = "SelectFolder" -> Cmd("Folder", None)
    [] dialog_type = "OpenFile" -> Cmd("OpenSelected", None)
    [] dialog_type = "SaveFile" ->
         IF should_open_directory(s) THEN Cmd("OpenSelected", None)
         ELSE Cmd("Save", FileInfo_new(s.fs, join(s.path, s.filename_edit)))

\* A click on row idx; mod is the modifier held: "shift", "ctrl" or "none".
click_command(s, idx, mod) ==
  IF multi_select_enabled
  THEN IF mod = "shift" THEN Cmd("MultiSelectRange", idx)
       ELSE IF mod = "ctrl" THEN Cmd("MultiSelectSwitch", idx)
       ELSE Cmd("MultiSelect", idx)
  ELSE Cmd("Select", s.files.list[idx + 1])

\* The second click of a double click on row idx: its command replaces the
\* click's, unless the filter refuses.
double_click_command(s, idx, mod) ==
  LET info == s.files.list[idx + 1]
  IN CASE dialog_type = "SelectFolder" -> Cmd("OpenSelected", None)
       [] dialog_type = "OpenFile" ->
            IF info.dir THEN Cmd("BrowseDirectory", info)
            ELSE IF FilenameFilter(s.filename_edit) THEN Cmd("Open", info)
            ELSE click_command(s, idx, mod)
       [] dialog_type = "SaveFile" ->
            IF info.dir THEN Cmd("OpenSelected", None)
            ELSE IF FilenameFilter(s.filename_edit) THEN Cmd("Save", info)
            ELSE click_command(s, idx, mod)

(***************************************************************************)
(* Inputs: what the user types and what the host passes.                   *)
(***************************************************************************)
\* Texts typed into the filename field.
FilenameTexts == {EmptyStr, NameT}
\* A further text typed into the filename field over the wider root.
WideFilenameTexts == {NameA}
\* Texts typed into the path field: nothing, and a path that is a file at
\* first.  (The text refresh leaves in the field names the directory.)
PathTexts == {EmptyStr, to_str(<<RootDir, NameDotT>>)}
\* Paths the host passes to set_path.
SetPathTargets == {<<RootDir, NameT>>}
\* Initial paths passed to the constructor: a directory and a file.
InitialPaths == {Root, <<RootDir, NameDotT>>}
Modifiers == {"none", "ctrl", "shift"}
Ends == {"none", "escape", "close"}

(***************************************************************************)
(* The dialog record of the current state, and its write-back.             *)
(***************************************************************************)
Self ==
  [path |-> path, path_edit |-> path_edit, selected_file |-> selected_file,
   filename_edit |-> filename_edit, files |-> files, state |-> state,
   range_start |-> range_start, show_hidden |-> show_hidden, fs |-> fs,
   fs_ops |-> fs_ops, printed |-> FALSE, panicked |-> panicked]

Becomes(r, cmd, click) ==
  /\ path' = r.path
  /\ path_edit' = r.path_edit
  /\ selected_file' = r.selected_file
  /\ filename_edit' = r.filename_edit
  /\ files' = r.files
  /\ state' = r.state
  /\ range_start' = r.range_start
  /\ show_hidden' = r.show_hidden
  /\ fs' = r.fs
  /\ fs_ops' = r.fs_ops
  /\ printed' = r.printed
  /\ panicked' = r.panicked
  /\ command' = cmd.tag
  /\ last_click' = IF r.state = "Open" /\ ~r.panicked THEN click ELSE None
  /\ range_after_plain' =
       (cmd.tag = "MultiSelectRange" /\ command = "MultiSelect")
  /\ UNCHANGED config

\* The dialog is shown and its thread is alive.
IsOpen == state = "Open" /\ ~panicked

\* One frame in which the widgets report cmd.
Frame(esc, toggle, cmd, closed, click) ==
  Becomes(show(Self, esc, toggle, cmd, closed), cmd, click)

(***************************************************************************)
(* Construction: FileDialog::new and the builder methods.                  *)
(***************************************************************************)
Init ==
  /\ dialog_type \in DialogTypes
  /\ multi_select_enabled \in BOOLEAN
  /\ filename_filter \in Filters
  /\ fs = InitialFs
  /\ \E initial_path \in InitialPaths :
       IF is_file(fs, initial_path)
       THEN /\ dialog_type # "SelectFolder"
            /\ filename_edit = get_file_name(FileInfo(initial_path, FALSE, FALSE))
            /\ path = Front(initial_path)
       ELSE /\ filename_edit = EmptyStr
            /\ path = initial_path
  /\ path_edit = to_str(path)
  /\ selected_file = None
  /\ files = Ok(<<>>)
  /\ state = "Closed"
  /\ range_start = None
  /\ show_hidden = FALSE
  /\ fs_ops = 0
  /\ command = "new"
  /\ printed = FALSE
  /\ last_click = None
  /\ range_after_plain = FALSE
  /\ panicked = FALSE

\* Construction of a single-select dialog over the wider root.
InitWide ==
  /\ dialog_type \in DialogTypes
  /\ multi_select_enabled = FALSE
  /\ filename_filter \in Filters
  /\ fs = WideFs
  /\ \E initial_path \in InitialPaths :
       IF is_file(fs, initial_path)
       THEN /\ dialog_type # "SelectFolder"
            /\ filename_edit = get_file_name(FileInfo(initial_path, FALSE, FALSE))
            /\ path = Front(initial_path)
       ELSE /\ filename_edit = EmptyStr
            /\ path = initial_path
  /\ path_edit = to_str(path)
  /\ selected_file = None
  /\ files = Ok(<<>>)
  /\ state = "Closed"
  /\ range_start = None
  /\ show_hidden = FALSE
  /\ fs_ops = 0
  /\ command = "new"
  /\ printed = FALSE
  /\ last_click = None
  /\ range_after_plain = FALSE
  /\ panicked = FALSE

(***************************************************************************)
(* The host's calls.                                                       *)
(***************************************************************************)
CallOpen ==
  /\ ~panicked
  /\ Becomes(open(Self), Cmd("open", None), None)

CallSetPath(p) ==
  /\ ~panicked
  /\ Becomes(set_path(Self, p), Cmd("set_path", p), None)

\* show() while the dialog is not open.  No window is laid out, so no widget
\* reports a command; the frame's key press (esc) and a click where the Show
\* Hidden checkbox would be (toggle) reach show() all the same.
ShowNotOpen(esc, toggle) ==
  /\ state # "Open"
  /\ ~panicked
  /\ ~(esc /\ toggle)
  /\ Becomes(show(Self, esc, toggle, NoCommand, FALSE), NoCommand, None)

(***************************************************************************)
(* show() while the dialog is open.  A frame carries one input event, a    *)
(* key press or a click, and what follows from it: a click or Escape makes *)
(* the focused path field lose focus in the same frame.  end is how the    *)
(* event ends the dialog: "escape" (Key::Escape), "close" (the window's    *)
(* close button) or "none".                                                *)
(***************************************************************************)
\* Nothing is clicked and Escape or the close button ends the dialog.  (A
\* frame without any event changes nothing: it is a stuttering step.)
ShowIdle(end) ==
  /\ IsOpen
  /\ end # "none"
  /\ Frame(end = "escape", FALSE, NoCommand, end = "close", None)

\* The user types into the path field.
ShowEditPath(text) ==
  /\ IsOpen
  /\ text # path_edit
  /\ Becomes(show([Self EXCEPT !.path_edit = text], FALSE, FALSE, NoCommand, FALSE),
             NoCommand, None)

\* The user types into the filename field.
ShowEditFilename(text) ==
  /\ IsOpen
  /\ text # filename_edit
  /\ Becomes(show([Self EXCEPT !.filename_edit = text], FALSE, FALSE, NoCommand, FALSE),
             NoCommand, None)

\* The Show Hidden checkbox changes; the path field may lose focus to it.
ShowToggleHidden(lost_focus) ==
  /\ IsOpen
  /\ Frame(FALSE, TRUE,
           IF lost_focus THEN path_commit_command(Self) ELSE NoCommand,
           FALSE, None)

ShowUpDirectory ==
  /\ IsOpen
  /\ parent(path) # None
  /\ Frame(FALSE, FALSE, Cmd("UpDirectory", None), FALSE, None)

ShowRefresh ==
  /\ IsOpen
  /\ Frame(FALSE, FALSE, Cmd("Refresh", None), FALSE, None)

\* The path field loses focus: to Escape, to the close button, or to a
\* click or key (Tab, Enter) that does nothing else.
ShowPathCommit(end) ==
  /\ IsOpen
  /\ Frame(end = "escape", FALSE, path_commit_command(Self), end = "close", None)

ShowCreateDirectory ==
  /\ IsOpen
  /\ Len(path) <= MaxDepth
  /\ create_dir_ok(fs, new_dir_path(Self)) => fs_ops < MaxFsOps
  /\ Frame(FALSE, FALSE, Cmd("CreateDirectory", None), FALSE, None)

ShowRename ==
  /\ IsOpen
  /\ can_rename(Self)
  /\ LET cmd == rename_command(Self)
     IN /\ rename_ok(fs, cmd.arg[1], cmd.arg[2]) => fs_ops < MaxFsOps
        /\ Frame(FALSE, FALSE, cmd, FALSE, None)

ShowFilenameCommit ==
  /\ IsOpen
  /\ Frame(FALSE, FALSE, filename_commit_command(Self), FALSE, None)

ShowConfirmButton ==
  /\ IsOpen
  /\ confirm_enabled(Self)
  /\ Frame(FALSE, FALSE, confirm_command(Self), FALSE, None)

ShowCancelButton ==
  /\ IsOpen
  /\ Frame(FALSE, FALSE, Cmd("Cancel", None), FALSE, None)

\* A click on a row.  last_click keeps the row while the frame's command is
\* the click's.
ShowRowClick(idx, mod) ==
  /\ IsOpen
  /\ files.ok
  /\ idx < Len(files.list)
  /\ Frame(FALSE, FALSE, click_command(Self, idx, mod), FALSE, Some(idx))

\* The second click of a double click on the row clicked last.
ShowRowDoubleClick(idx, mod) ==
  /\ IsOpen
  /\ files.ok
  /\ idx < Len(files.list)
  /\ last_click = Some(idx)
  /\ LET cmd == double_click_command(Self, idx, mod)
     IN Frame(FALSE, FALSE, cmd, FALSE,
              IF cmd = click_command(Self, idx, mod) THEN Some(idx) ELSE None)

\* Row indices a listing can have: a directory holds at most the entries of
\* the initial root and those created since.
Rows == 0..(Cardinality(DOMAIN WideFs) + MaxFsOps - 2)

Next ==
  \/ CallOpen
  \/ \E p \in SetPathTargets : CallSetPath(p)
  \/ \E esc, toggle \in BOOLEAN : ShowNotOpen(esc, toggle)
  \/ \E end \in Ends : ShowIdle(end)
  \/ \E text \in PathTexts : ShowEditPath(text)
  \/ \E text \in FilenameTexts : ShowEditFilename(text)
  \/ \E lost_focus \in BOOLEAN : ShowToggleHidden(lost_focus)
  \/ ShowUpDirectory
  \/ ShowRefresh
  \/ \E end \in Ends : ShowPathCommit(end)
  \/ ShowCreateDirectory
  \/ ShowRename
  \/ ShowFilenameCommit
  \/ ShowConfirmButton
  \/ ShowCancelButton
  \/ \E idx \in Rows, mod \in Modifiers : ShowRowClick(idx, mod)
  \/ \E idx \in Rows, mod \in Modifiers : ShowRowDoubleClick(idx, mod)

Spec == Init /\ [][Next]_vars

\* The same dialog over the wider root, where the user also types the name
\* of its plain file, which the predicate "ends_t" refuses.
NextWide ==
  \/ Next
  \/ \E text \in WideFilenameTexts : ShowEditFilename(text)

SpecWide == InitWide /\ [][NextWide]_vars

(***************************************************************************)
(* Properties.                                                             *)
(***************************************************************************)
\* The entries of a readable listing that are selected, as a set of indices.
SelectedRows(fl) == {i \in 0..(Len(fl.list) - 1) : fl.list[i + 1].selected}

\* lst is what a read of directory p of filesystem f shows: an error when p
\* is no directory, else one unselected entry for each child of p that is
\* not hidden (or for each child, when hidden entries are shown), each
\* classified as the filesystem has it.
IsFreshRead(lst, f, p, hidden) ==
  IF ~is_dir(f, p) THEN ~lst.ok
  ELSE /\ lst.ok
       /\ {lst.list[i].path : i \in 1..Len(lst.list)} =
            {q \in Children(f, p) : hidden \/ ~starts_with(Last(q), ".")}
       /\ \A i, j \in 1..Len(lst.list) :
            lst.list[i].path = lst.list[j].path => i = j
       /\ \A i \in 1..Len(lst.list) :
            /\ lst.list[i].dir = (f[lst.list[i].path] = "dir")
            /\ ~lst.list[i].selected

\* C1: from any dialog state and after any commands, a call to open()
\* leaves the dialog Open with no selection (path() is None, selection() is
\* empty) and with the listing a fresh read of the current directory.
C1_OpenResets ==
  [][command' = "open" =>
       /\ state' = "Open"
       /\ selected_file' = None
       /\ files'.ok => SelectedRows(files') = {}
       /\ IsFreshRead(files', fs', path', show_hidden')
       /\ path' = path]_vars

\* Witness of C1: open() was called after a directory was created, a row
\* was clicked in multi-select mode and hidden entries were switched on; the
\* new listing has all three entries of the root.
C1_Witness ==
  /\ command = "open"
  /\ state = "Open"
  /\ fs_ops = 1
  /\ range_start # None
  /\ files.ok /\ Len(files.list) = 3

\* C2: show() in state Closed, Cancelled or Selected applies no command and
\* changes nothing but the state field, whatever the frame's input is.
C2_ShowOnlyWhenOpen ==
  [][(state # "Open" /\ command' \notin {"open", "set_path"}) =>
       /\ state' = "Closed"
       /\ UNCHANGED <<path, path_edit, selected_file, filename_edit, files,
                      range_start, show_hidden, fs, panicked, config>>]_vars

\* Witness of C2: a frame ran on a dialog that was not open and that holds a
\* confirmed file, a diverged path field and a non-empty listing.
C2_Witness ==
  /\ state = "Closed"
  /\ command = "None"
  /\ selected_file # None
  /\ path_edit # to_str(path)
  /\ files.ok /\ Len(files.list) > 0

\* The precondition of C3 in the state before the frame: a SaveFile dialog
\* that is open, with a non-empty name in filename_edit that passes the
\* filename predicate.
SaveReady ==
  /\ dialog_type = "SaveFile"
  /\ IsOpen
  /\ filename_edit # EmptyStr
  /\ FilenameFilter(filename_edit)

\* path() after the frame is the current directory joined with the name that
\* filename_edit held before it.
PathIsJoined ==
  path_result([selected_file |-> selected_file']) = Some(join(path, filename_edit))

\* C3 as stated: every Save command applied while filename_edit holds a
\* non-empty name N that passes the predicate moves the state to Selected
\* and makes path() the current directory joined with N.  A double click on
\* a file row of a multi-select instance refutes it: its Save carries the
\* row, and the click before it left filename_edit alone.
C3_AnySave ==
  [][(SaveReady /\ command' = "Save") =>
       (state' = "Selected" /\ PathIsJoined)]_vars

\* C3: in an open SaveFile dialog whose filename_edit holds a non-empty name
\* N that passes the filename predicate, every Save command moves the state
\* to Selected; when the Save button or Enter in the filename field issued
\* it, path() is the current directory joined with N, and when a double
\* click on a file row issued it, path() is that row's path.
C3_SaveConfirmsJoinedPath ==
  [][(SaveReady /\ command' = "Save") =>
       /\ state' = "Selected"
       /\ (ShowConfirmButton \/ ShowFilenameCommit) => PathIsJoined
       /\ PathIsJoined \/
            /\ last_click # None
            /\ files.ok
            /\ last_click[1] < Len(files.list)
            /\ ~files.list[last_click[1] + 1].dir
            /\ path_result([selected_file |-> selected_file']) =
                 Some(files.list[last_click[1] + 1].path)]_vars

\* Witness of C3: the Save button or Enter confirmed /t in a single-select
\* SaveFile dialog whose predicate accepts the names ending in 't'; no row
\* of that name exists to be double-clicked.
C3_Witness ==
  /\ command = "Save"
  /\ state = "Selected"
  /\ dialog_type = "SaveFile"
  /\ ~multi_select_enabled
  /\ filename_filter = "ends_t"
  /\ filename_edit = NameT
  /\ path_result(Self) = Some(<<RootDir, NameT>>)
  /\ ~exists(fs, <<RootDir, NameT>>)


\* The indices of the closed interval between a and b, in either order.
Interval(a, b) == Min2(a, b)..Max2(a, b)

\* The paths of the entries of fl with index lo..hi, in listing order.
PathsOf(fl, lo, hi) == [k \in 1..(hi - lo + 1) |-> fl.list[lo + k].path]

\* A multi-select OpenFile dialog over a readable listing in which the
\* latest two frames were a plain click on a row, which is the anchor now,
\* and a range click on a row, which is last_click now.
AfterClickThenRangeClick ==
  /\ dialog_type = "OpenFile"
  /\ multi_select_enabled
  /\ IsOpen
  /\ range_after_plain
  /\ files.ok
  /\ range_start # None
  /\ last_click # None

\* C4: in a multi-select OpenFile dialog over a readable listing, a plain
\* click on row i, a range click on row j and then the Open command yield
\* state Selected, and selection() is the entries min(i,j)..max(i,j) of the
\* listing.  Refuted: a directory created before the clicks is still in
\* selected_file, and the Open command navigates into it instead.
C4_RangeThenOpenConfirms ==
  [][(AfterClickThenRangeClick /\ command' = "OpenSelected") =>
       /\ state' = "Selected"
       /\ selection([files |-> files']) =
            PathsOf(files, Min2(range_start[1], last_click[1]),
                    Max2(range_start[1], last_click[1]))]_vars

\* The listing fl with the rows of the set S selected in addition.
WithSelected(fl, S) ==
  [fl EXCEPT !.list = [i \in 1..Len(@) |->
                         IF (i - 1) \in S THEN [@[i] EXCEPT !.selected = TRUE]
                         ELSE @[i]]]

\* C5: on a readable listing with range anchor A, a range click on a valid
\* row B returns with every entry of the closed interval between A and B
\* selected and no other flag changed; without an anchor it changes no flag.
\* Refuted: an anchor that a re-listing left past the end of the listing
\* makes select_range index out of bounds.
C5_RangeSelectsInterval ==
  [][(command' = "MultiSelectRange" /\ files.ok) =>
       IF range_start = None THEN files' = files /\ ~panicked'
       ELSE /\ ~panicked'
            /\ \E B \in Rows :
                 /\ B < Len(files.list)
                 /\ last_click' = Some(B)
                 /\ files' = WithSelected(files, Interval(range_start[1], B))]_vars

\* C6: on a readable listing, whatever flags are set, a plain click on row
\* idx of a multi-select instance leaves at most one entry selected: none if
\* idx was selected before the click, only idx otherwise; the range anchor
\* is idx, and the entries keep their paths and kinds.
C6_SelectExclusive ==
  [][(command' = "MultiSelect" /\ files.ok) =>
       /\ last_click' # None
       /\ LET idx == last_click'[1]
          IN /\ range_start' = Some(idx)
             /\ files'.ok
             /\ Cardinality(SelectedRows(files')) <= 1
             /\ SelectedRows(files') =
                  IF idx \in SelectedRows(files) THEN {} ELSE {idx}
             /\ files' = [files EXCEPT !.list =
                            [i \in 1..Len(@) |->
                               [@[i] EXCEPT !.selected = (files'.list[i].selected)]]]]_vars

\* Witness of C6: a plain click on a selected row, among at least two rows,
\* left nothing selected and the anchor on the clicked row.
C6_Witness ==
  /\ command = "MultiSelect"
  /\ files.ok
  /\ Len(files.list) >= 2
  /\ SelectedRows(files) = {}
  /\ range_start = last_click
  /\ range_start # None

\* C7: on a readable listing, a toggle click on row idx inverts the flag of
\* idx and of no other entry; the range anchor becomes idx when the entry is
\* now selected and absent when it is now deselected.
C7_SelectToggle ==
  [][(command' = "MultiSelectSwitch" /\ files.ok) =>
       /\ last_click' # None
       /\ LET idx == last_click'[1]
          IN /\ files' = [files EXCEPT !.list[idx + 1].selected = ~@]
             /\ range_start' =
                  IF files'.list[idx + 1].selected THEN Some(idx) ELSE None]_vars

\* Witness of C7: a toggle click deselected a row while another row stays
\* selected; the anchor is absent.
C7_Witness ==
  /\ command = "MultiSelectSwitch"
  /\ files.ok
  /\ last_click # None
  /\ ~files.list[last_click[1] + 1].selected
  /\ SelectedRows(files) # {}
  /\ range_start = None


\* C8: a SaveFile dialog is never in state Selected through a Save command
\* while filename_edit is the empty string.  Refuted: the predicate that
\* accepts every name accepts the empty one, and neither Enter in the
\* filename field nor a double click on a file row asks for a non-empty name.
C8_NoSaveWithEmptyName ==
  ~(/\ dialog_type = "SaveFile"
    /\ command = "Save"
    /\ state = "Selected"
    /\ filename_edit = EmptyStr)

\* C9: in every reachable state can_rename is false when nothing is selected
\* or when filename_edit is the selected entry's display name, and the
\* Rename command that an enabled button issues has different source and
\* target paths.  (The names typed are single path components.)
C9_NoRenameToSameName ==
  /\ (selected_file = None \/ filename_edit = get_file_name(selected_file[1]))
       => ~can_rename(Self)
  /\ can_rename(Self) => rename_command(Self).arg[1] # rename_command(Self).arg[2]

\* Witness of C9: an entry was renamed, so that it is selected under the name
\* filename_edit holds, and the Rename button is disabled.
C9_Witness ==
  /\ command = "Rename"
  /\ ~printed
  /\ state = "Open"
  /\ selected_file # None
  /\ filename_edit = get_file_name(selected_file[1])
  /\ filename_edit # EmptyStr
  /\ ~can_rename(Self)

\* C10: when fs::create_dir or fs::rename fails, the dialog stays Open and
\* the current path, the listing with its flags, selected_file, the range
\* anchor, both edit buffers and the filesystem are unchanged.
C10_FailedOperationChangesNothing ==
  [][(command' \in {"CreateDirectory", "Rename"} /\ printed') =>
       /\ state = "Open"
       /\ state' = "Open"
       /\ UNCHANGED <<path, files, selected_file, range_start, path_edit,
                      filename_edit, show_hidden, fs, fs_ops>>]_vars

\* Witness of C10: New Folder failed on a name that exists, in a directory
\* with at least two rows, one of them selected and anchored.
C10_Witness ==
  /\ command = "CreateDirectory"
  /\ printed
  /\ state = "Open"
  /\ exists(fs, new_dir_path(Self))
  /\ files.ok
  /\ Len(files.list) >= 2
  /\ SelectedRows(files) # {}
  /\ range_start # None
  /\ selected_file # None


\* The commands a click on a row issues.
RowCommands == {"Select", "MultiSelect", "MultiSelectRange", "MultiSelectSwitch"}

\* The listing holds a read error and the dialog is shown.
ListingFailed == IsOpen /\ ~files.ok

\* C11 as stated: while the listing holds a read error, the single select,
\* the three multi-select operations and the open commands change neither
\* the state nor the selection nor the range anchor, and no open command
\* reaches Selected before a refresh succeeds.  Refuted twice: a committed
\* path or filename issues Command::Open, which confirms whatever the
\* listing is, and select_switch_multi clears the anchor on a failed listing.
C11_InertOnReadError ==
  [][ListingFailed =>
       /\ \A idx \in Rows :
            /\ select_reset_multi(Self, idx).range_start = range_start
            /\ select_range(Self, idx).range_start = range_start
            /\ select_switch_multi(Self, idx).range_start = range_start
       /\ (/\ command' \in RowCommands \cup {"Open", "OpenSelected", "BrowseDirectory"}
           /\ ~files'.ok)
            => /\ state' = "Open"
               /\ UNCHANGED <<selected_file, range_start, files>>]_vars

\* C11: while the listing holds a read error no row is laid out, so no row
\* command (click or double click) is issued; select_reset_multi and
\* select_range would change nothing and select_switch_multi only clears
\* the anchor; and the OpenSelected command of the confirm button changes
\* nothing at all.  (Command::Open of a committed path or filename, Save and
\* Folder do not read the listing and can still confirm.)
C11_ListCommandsInertOnReadError ==
  [][ListingFailed =>
       /\ \A idx \in Rows :
            /\ select_reset_multi(Self, idx) = Self
            /\ select_range(Self, idx) = Self
            /\ select_switch_multi(Self, idx) = [Self EXCEPT !.range_start = None]
       /\ command' \notin RowCommands \cup {"BrowseDirectory"}
       /\ command' = "OpenSelected" =>
            /\ state' = "Open"
            /\ UNCHANGED <<path, path_edit, selected_file, filename_edit, files,
                           range_start, show_hidden, fs>>]_vars

\* Witness of C11: the Open button of an OpenFile dialog was pressed, with a
\* name typed, over a listing that holds a read error; the dialog is open.
C11_Witness ==
  /\ command = "OpenSelected"
  /\ dialog_type = "OpenFile"
  /\ state = "Open"
  /\ ~files.ok
  /\ filename_edit # EmptyStr


\* The path field loses focus while its text names no existing path.
InvalidPathCommit ==
  /\ IsOpen
  /\ ~exists(fs, PathBuf_from(path_edit))
  /\ ShowPathCommit("none")

\* Enter in the filename field while its text fails the filename predicate
\* or names no existing path of the current directory.
InvalidFilenameCommit ==
  /\ IsOpen
  /\ ~FilenameFilter(filename_edit) \/ ~exists(fs, join(path, filename_edit))
  /\ ShowFilenameCommit

\* C12: in every dialog type, committing a path-edit or filename-edit buffer
\* that names a path which does not exist, or a filename that fails the
\* predicate, leaves the dialog Open and selected_file, the current path and
\* the listing unchanged.  Refuted: the path field issues Command::Open
\* without looking at the path, and open_selected confirms every entry that
\* is not a directory in an OpenFile dialog.
C12_InvalidInputRefused ==
  [][(InvalidPathCommit \/ InvalidFilenameCommit) =>
       /\ state' = "Open"
       /\ UNCHANGED <<selected_file, path, files>>]_vars


\* The frame or call navigated: the dialog is shown on another path, whose
\* listing is readable and has no entry.
NavigatedToEmpty ==
  /\ state' = "Open"
  /\ ~panicked'
  /\ path' # path
  /\ files' = Ok(<<>>)

\* What can_open and can_save read, after the step.
AfterStep == [files |-> files', filename_edit |-> filename_edit']

LexLess(a, b) ==
  \E k \in 1..Len(b) :
    /\ Len(a) >= k - 1
    /\ SubSeq(a, 1, k - 1) = SubSeq(b, 1, k - 1)
    /\ Len(a) = k - 1 \/ Code[a[k]] < Code[b[k]]

\* C14: in every reachable state whose listing is readable, every directory
\* entry precedes every file entry, and within the directories and within
\* the files the entries are in lexicographic order of their final path
\* component.
C14_ListingSorted ==
  files.ok =>
    \A i, j \in 1..Len(files.list) :
      i < j =>
        LET a == files.list[i]
            b == files.list[j]
        IN /\ a.dir \/ ~b.dir
           /\ a.dir = b.dir => LexLess(Last(a.path), Last(b.path))

\* Witness of C14: a listing of two directories and two files, the hidden
\* ones among them.
C14_Witness ==
  /\ files.ok
  /\ Len(files.list) = 4
  /\ Cardinality({i \in 1..4 : files.list[i].dir}) = 2
  /\ show_hidden


\* The entries of the listing whose display name starts with '.'.
HiddenRows == {i \in 1..Len(files.list) : starts_with(get_file_name(files.list[i]), ".")}

\* C15: while show_hidden is off no entry whose display name starts with
\* '.', file or directory, is in the listing of any reachable state; and a
\* frame that switches the checkbox, on or off, leaves the listing a fresh
\* read of the current directory under the new setting: with every hidden
\* child when it is on, with none when it is off.
C15_HiddenEntries ==
  /\ [](~show_hidden => HiddenRows = {})
  /\ [][show_hidden' # show_hidden =>
          IsFreshRead(files', fs', path', show_hidden')]_vars

\* Witness of C15: the checkbox was switched on and the listing shows a
\* hidden directory and a hidden file.
C15_Witness ==
  /\ show_hidden
  /\ state = "Open"
  /\ files.ok
  /\ \E i, j \in HiddenRows : files.list[i].dir /\ ~files.list[j].dir


\* C16: a Rename command is issued and its fs::rename performed only when
\* the new name in filename_edit passes the filename predicate.  Refuted:
\* can_rename, which alone enables the Rename button, does not call the
\* predicate.
C16_PredicateGatesRename ==
  [][(command' = "Rename" /\ ~printed') => FilenameFilter(filename_edit)]_vars


\* C17: in every reachable state the range anchor, when present, is an
\* index of the current listing, and no range click has read or written a
\* listing index outside 0..len-1.  Refuted: refresh re-reads the listing
\* and leaves range_start as it was.
C17_AnchorValid ==
  /\ ~panicked
  /\ (files.ok /\ range_start # None) => range_start[1] < Len(files.list)


\* C18: in every reachable state whose dialog state is Selected the result
\* query of the instance's mode is non-empty: path() is Some in a
\* single-select instance, and selection() holds at least one path in a
\* multi-select OpenFile instance.
C18_SelectedHasResult ==
  state = "Selected" =>
    /\ ~multi_select_enabled => path_result(Self) # None
    /\ (multi_select_enabled /\ dialog_type = "OpenFile") => selection(Self) # <<>>


\* C19: whenever a step takes an OpenFile or SaveFile dialog from Open to
\* Selected with path() Some, the final component of that path passes the
\* filename predicate, whichever command confirmed it.
C19_ConfirmedNamePasses ==
  [][(/\ state = "Open"
      /\ state' = "Selected"
      /\ dialog_type \in {"OpenFile", "SaveFile"}
      /\ selected_file' # None)
       => FilenameFilter(get_file_name(selected_file'[1]))]_vars


\* A frame of the open dialog in which Escape is pressed: alone, or taking
\* the focus from the path field, whose commit the frame then reports.
EscapeFrame == IsOpen /\ (ShowIdle("escape") \/ ShowPathCommit("escape"))

\* C20: a frame in which Escape is pressed while the dialog is Open ends
\* with state Cancelled and applies no command: the directory, the
\* selection, the listing, the anchor and the filesystem are as before the
\* frame.  Refuted: show sets Cancelled and still runs the window, whose
\* command is dispatched.
C20_EscapeCancels ==
  [][EscapeFrame =>
       /\ state' = "Cancelled"
       /\ UNCHANGED <<path, selected_file, filename_edit, files, range_start, fs>>]_vars


\* What the host reads from a dialog whose selected_file is sf and whose
\* listing is fl: path() and selection().
Results(sf, fl) ==
  <<path_result([selected_file |-> sf]), selection([files |-> fl])>>

\* C21: the lifecycle is Closed -> Open -> (Cancelled | Selected) -> Closed.
\* A step that enters Cancelled or Selected starts in Open; a show() of a
\* Cancelled or Selected dialog ends Closed and leaves path() and
\* selection() as they were; and a step that leaves Closed is open() and
\* ends Open.
C21_Lifecycle ==
  [][/\ (state' # state /\ state' \in {"Cancelled", "Selected"}) => state = "Open"
     /\ (command' = "None" /\ state \in {"Cancelled", "Selected"}) =>
          /\ state' = "Closed"
          /\ Results(selected_file', files') = Results(selected_file, files)
     /\ (state = "Closed" /\ state' # "Closed") =>
          /\ command' = "open"
          /\ state' = "Open"]_vars

\* Witness of C21: the show() after a confirm has closed the dialog and the
\* host still reads the confirmed path.
C21_Witness ==
  /\ state = "Closed"
  /\ command = "None"
  /\ dialog_type = "SaveFile"
  /\ path_result(Self) = Some(<<RootDir, NameT>>)


\* A step that takes a SelectFolder dialog to Selected.
FolderConfirmed == dialog_type = "SelectFolder" /\ state # "Selected" /\ state' = "Selected"

\* C22: a SelectFolder dialog reaches Selected only through the Folder
\* command, and then path() is the selected entry's path when that entry
\* is a directory and the current directory otherwise; the confirmed entry
\* is flagged a directory and is the path of no file.
C22_FolderResult ==
  [][FolderConfirmed =>
       /\ command' = "Folder"
       /\ selected_file' =
            Some(FileInfo(IF selected_file # None /\ selected_file[1].dir
                          THEN selected_file[1].path
                          ELSE path,
                          TRUE, TRUE))
       /\ ~is_file(fs', selected_file'[1].path)]_vars


\* The step was a navigation or a refresh: set_path, the Refresh and
\* up-directory buttons, the Show Hidden checkbox alone, or a command that
\* opened a directory entry.
Navigated ==
  /\ ~panicked'
  /\ \/ command' \in {"set_path", "Refresh", "UpDirectory"}
     \/ command' = "None" /\ show_hidden' # show_hidden
     \/ command' \in {"Open", "OpenSelected", "BrowseDirectory"} /\ path' # path

\* C23: every navigation and every refresh ends with path_edit the text of
\* the current path, selected_file absent, no entry of the listing
\* selected, and the listing a fresh read of the current directory; and
\* the dialog state is as before (only the frame of a path-field commit
\* that also carries Escape or the close button ends Cancelled).
C23_NavigationResets ==
  [][Navigated =>
       /\ path_edit' = to_str(path')
       /\ selected_file' = None
       /\ SelectedRows(files') = {}
       /\ IsFreshRead(files', fs', path', show_hidden')
       /\ state' = state \/ (command' = "Open" /\ state' = "Cancelled")]_vars


\* Witness of C23: a single-select dialog opened its selected directory
\* entry: it shows the new directory and the selection is gone.
C23_Witness ==
  /\ command = "OpenSelected"
  /\ ~multi_select_enabled
  /\ state = "Open"
  /\ path = <<RootDir, NameD>>
  /\ path_edit = to_str(path)
  /\ selected_file = None
  /\ files.ok


\* C24: the two selection mechanisms exclude each other per instance: in a
\* single-select instance no entry of the listing is ever flagged selected,
\* and in a multi-select instance selected_file is never set while the
\* dialog is Open.
C24_SelectionMechanismsExclusive ==
  /\ ~multi_select_enabled => (SelectedRows(files) = {} /\ selection(Self) = <<>>)
  /\ (multi_select_enabled /\ state = "Open") => selected_file = None


=============================================================================
